---- MODULE Spec2Model ----
(***************************************************************************)
(* Model of bilus/politika: the rule-gated decision engine                 *)
(* (Rule.Evaluate, Scenario.Decisions), the affine world mutation          *)
(* (World.Apply, updatedValue) and the turn orchestrator (gameLoop) with   *)
(* its consumer (consoleUI).                                               *)
(*                                                                         *)
(* Encoding of Go values:                                                  *)
(*  - float64 weights, draws and delta components are fixed-point numbers  *)
(*    in tenths: 1.0 is 10, 0.5 is 5, 0.1 is 1, 100.0 is 1000;             *)
(*  - a Go map[string]int is a function whose DOMAIN is the key set; a     *)
(*    map object lives in `heap` under a reference, and a World struct is  *)
(*    the pair of references of its two maps (Go copies a struct by        *)
(*    copying the map references, not the maps);                           *)
(*  - a Delta ([]float64) is a sequence of tenths of any length;           *)
(*  - a nil map of a Change is the empty function.                         *)
(***************************************************************************)
EXTENDS Integers, Sequences, FiniteSets, TLC

VARIABLES
    scenario,     \* Scenario.Rules: the sequence of rules
    cap,          \* maxNumDecisions handed to Decisions
    draws,        \* the values the Rand source returns to the current call, in order
    heap,         \* map objects: reference -> map[string]int
    world,        \* the live World struct: references of its maps
    pc,           \* position of the program (harness or gameLoop goroutine)
    evals,        \* results of the Rule.Evaluate calls of the last Decisions call
    decisions,    \* decisions returned by the last Decisions call
    decErr,       \* whether the last Decisions call returned an error
    lenAtDraw,    \* len(decisions) at each r.Float64() call of the last Decisions call
    choice,       \* the Choice handed to the last World.Apply
    order,        \* the order in which the last Apply ranged over the Change maps
    pre,          \* contents of the World when the last Apply was entered
    outcome,      \* how the last Apply ended: "none", "nil" (returned nil), "panic"
    worldChOpen,  \* worldCh not yet closed
    decisionChOpen, \* decisionCh not yet closed
    choiceChOpen, \* choiceCh not yet closed
    uiWorld,      \* the World struct the consumer last received on worldCh
    uiWorldSeen,  \* contents of that World at the moment it was received
    wBusy,        \* the worldCh consumer is inside ui.Update, its closure not yet run
    uiDecisions,  \* the decision list the consumer last received on decisionCh
    dBusy,        \* the decisionCh consumer is inside ui.Update, its closure not yet run
    uiChoices,    \* choices captured by the installed OnItemActivated callback
    uiThread,     \* the UI goroutine: "running", "sending" (blocked in choiceCh <-), "quit"
    uiSending,    \* the Choice the UI goroutine is sending
    turn          \* Choices received and Apply calls made since the last worldCh <- world

vars == <<scenario, cap, draws, heap, world, pc, evals, decisions, decErr,
          lenAtDraw, choice, order, pre, outcome, worldChOpen,
          decisionChOpen, choiceChOpen, uiWorld, uiWorldSeen, wBusy,
          uiDecisions, dBusy, uiChoices, uiThread, uiSending, turn>>

(***************************************************************************)
(* Bounds of the model.                                                    *)
(***************************************************************************)
MaxRules == 3      \* longest Scenario handed to Decisions by the harness
MaxCap == 2        \* largest maxNumDecisions handed to Decisions by the harness
MaxLoopRules == 2  \* longest Scenario handed to gameLoop

(***************************************************************************)
(* Go maps.                                                                *)
(***************************************************************************)
EmptyMap == [k \in {} |-> 0]

\* m[k] read: the zero value when the key is absent
MapGet(m, k) == IF k \in DOMAIN m THEN m[k] ELSE 0

\* m[k] = v: adds the key when it is absent
MapSet(m, k, v) == [x \in (DOMAIN m) \cup {k} |-> IF x = k THEN v ELSE m[x]]

\* contents of a World struct: the maps its references name
Deref(h, w) == [Resources |-> h[w.Resources], Powers |-> h[w.Powers]]

\* all orders in which a range loop may visit the key set S
Orders(S) == {o \in [1..Cardinality(S) -> S] : \A i, j \in 1..Cardinality(S) : i # j => o[i] # o[j]}

(***************************************************************************)
(* World mutation.                                                         *)
(***************************************************************************)
\* a mutant of Round that rounds ties up (math.Floor(x + 0.5))
RoundHalfUp(t) == (t + 5) \div 10

\* math.Round on a value in tenths: nearest integer, ties away from zero
Round(t) == IF t >= 0 THEN (t + 5) \div 10 ELSE -((-t + 5) \div 10)

\* a mutant of updatedValue that takes the components in the other order
updatedValueSwapped(old, delta) ==
    IF Len(delta) < 2
    THEN [panic |-> TRUE, value |-> old]
    ELSE [panic |-> FALSE, value |-> Round(delta[2] * old + delta[1])]

\* updatedValue: int(math.Round(delta[0]*float64(old) + delta[1])); indexing a
\* delta shorter than two components panics (index out of range), further
\* components are never read
updatedValue(old, delta) ==
    IF Len(delta) < 2
    THEN [panic |-> TRUE, value |-> old]
    ELSE [panic |-> FALSE, value |-> Round(delta[1] * old + delta[2])]

\* one range loop of Apply over a Change map, visiting its keys in order o from
\* position i: each entry is written as soon as it is computed; a panic leaves
\* the entries written so far in place
RECURSIVE RangeUpdate(_, _, _, _)
RangeUpdate(m, change, o, i) ==
    IF i > Len(o)
    THEN [panic |-> FALSE, map |-> m]
    ELSE LET u == updatedValue(MapGet(m, o[i]), change[o[i]])
         IN IF u.panic
            THEN [panic |-> TRUE, map |-> m]
            ELSE RangeUpdate(MapSet(m, o[i], u.value), change, o, i + 1)

\* a mutant of Apply whose second loop writes into w.Resources
ApplyPasteSlip(w, c, o) ==
    LET r == RangeUpdate(w.Resources, c.Change.Resources, o.Resources, 1)
    IN IF r.panic
       THEN [panic |-> TRUE, err |-> "nil", world |-> [Resources |-> r.map, Powers |-> w.Powers]]
       ELSE LET p == RangeUpdate(r.map, c.Change.Powers, o.Powers, 1)
            IN [panic |-> p.panic, err |-> "nil",
                world |-> [Resources |-> p.map, Powers |-> w.Powers]]

\* World.Apply on the contents w: the resources loop, then the powers loop;
\* the only error value it ever returns is nil
Apply(w, c, o) ==
    LET r == RangeUpdate(w.Resources, c.Change.Resources, o.Resources, 1)
    IN IF r.panic
       THEN [panic |-> TRUE, err |-> "nil", world |-> [Resources |-> r.map, Powers |-> w.Powers]]
       ELSE LET p == RangeUpdate(w.Powers, c.Change.Powers, o.Powers, 1)
            IN [panic |-> p.panic, err |-> "nil",
                world |-> [Resources |-> r.map, Powers |-> p.map]]

(***************************************************************************)
(* Guards and rules.                                                       *)
(***************************************************************************)
GuardTrue == "true"
GuardFalse == "false"
GuardPutsch == "World.Resources.Money > 1000 and World.Powers.Military >= 90"
GuardBroken == "World.Resources.Money > World"

\* Guard.Pass: expr.Run on the compiled guard; (false, err) when the evaluation
\* fails at run time, which GuardBroken always does and GuardPutsch does when a
\* map lacks the key it names
Pass(g, w) ==
    CASE g = GuardTrue -> [pass |-> TRUE, err |-> FALSE]
      [] g = GuardFalse -> [pass |-> FALSE, err |-> FALSE]
      [] g = GuardPutsch ->
            IF "Money" \in DOMAIN w.Resources /\ "Military" \in DOMAIN w.Powers
            THEN [pass |-> w.Resources["Money"] > 1000 /\ w.Powers["Military"] >= 90,
                  err |-> FALSE]
            ELSE [pass |-> FALSE, err |-> TRUE]
      [] OTHER -> [pass |-> FALSE, err |-> TRUE]

\* a mutant of Evaluate that forgets the guard's verdict
EvaluateIgnoringGuard(r, w) ==
    LET p == Pass(r.Guard, w)
    IN IF p.err THEN [weight |-> 0, err |-> TRUE]
       ELSE [weight |-> r.Weight, err |-> FALSE]

\* Rule.Evaluate
Evaluate(r, w) ==
    LET p == Pass(r.Guard, w)
    IN IF p.err THEN [weight |-> 0, err |-> TRUE]
       ELSE IF ~p.pass THEN [weight |-> 0, err |-> FALSE]
       ELSE [weight |-> r.Weight, err |-> FALSE]

(***************************************************************************)
(* Ranking: sort.Sort over CandidateRanking.                               *)
(***************************************************************************)
\* a mutant of Less that ranks by descending weight
LessDescending(c, i, j) == c[i].Weight > c[j].Weight

\* CandidateRanking.Less
Less(c, i, j) == c[i].Weight < c[j].Weight

\* CandidateRanking.Swap
Swap(c, i, j) == [c EXCEPT ![i] = c[j], ![j] = c[i]]

\* the inner loop of sort's insertionSort:
\*   for j := i; j > a && data.Less(j, j-1); j-- { data.Swap(j, j-1) }
RECURSIVE InsertDown(_, _)
InsertDown(c, j) ==
    IF j > 1 /\ Less(c, j, j - 1) THEN InsertDown(Swap(c, j, j - 1), j - 1) ELSE c

RECURSIVE InsertionSort(_, _)
InsertionSort(c, i) ==
    IF i > Len(c) THEN c ELSE InsertionSort(InsertDown(c, i), i + 1)

\* sort.Sort(ranking): for the slices of fewer than 7 elements handled here every
\* version of package sort runs insertionSort alone, through Less and Swap
Sort(c) == InsertionSort(c, 2)

(***************************************************************************)
(* Scenario.Decisions.                                                     *)
(***************************************************************************)
\* a mutant of the first loop that takes a failed evaluation for weight 0 and
\* goes on
RECURSIVE EvalAllSkippingErrors(_, _, _, _)
EvalAllSkippingErrors(rules, w, i, acc) ==
    IF i > Len(rules) THEN acc
    ELSE LET e == Evaluate(rules[i], w)
         IN EvalAllSkippingErrors(rules, w, i + 1,
                                  Append(acc, [weight |-> e.weight, err |-> FALSE]))

\* the first loop: one Evaluate per rule in declaration order, stopping at the
\* first error; the results of the calls made
RECURSIVE EvalAll(_, _, _, _)
EvalAll(rules, w, i, acc) ==
    IF i > Len(rules) THEN acc
    ELSE LET e == Evaluate(rules[i], w)
         IN IF e.err THEN Append(acc, e)
            ELSE EvalAll(rules, w, i + 1, Append(acc, e))

\* a mutant of the sampling loop that tests the cap before appending
RECURSIVE SampleCapFirst(_, _, _, _, _, _)
SampleCapFirst(c, ds, k, i, acc, lens) ==
    IF i > Len(c) THEN [decisions |-> acc, lenAtDraw |-> lens]
    ELSE IF ds[i] < c[i].Weight
         THEN IF Len(acc) >= k
              THEN [decisions |-> acc, lenAtDraw |-> Append(lens, Len(acc))]
              ELSE SampleCapFirst(c, ds, k, i + 1, Append(acc, c[i].Decision),
                                  Append(lens, Len(acc)))
         ELSE SampleCapFirst(c, ds, k, i + 1, acc, Append(lens, Len(acc)))

\* a mutant of the sampling loop that accepts a draw equal to the weight
RECURSIVE SampleNonStrict(_, _, _, _, _, _)
SampleNonStrict(c, ds, k, i, acc, lens) ==
    IF i > Len(c) THEN [decisions |-> acc, lenAtDraw |-> lens]
    ELSE IF ds[i] <= c[i].Weight
         THEN LET acc2 == Append(acc, c[i].Decision)
              IN IF Len(acc2) > k
                 THEN [decisions |-> acc2, lenAtDraw |-> Append(lens, Len(acc))]
                 ELSE SampleNonStrict(c, ds, k, i + 1, acc2, Append(lens, Len(acc)))
         ELSE SampleNonStrict(c, ds, k, i + 1, acc, Append(lens, Len(acc)))

\* a mutant of the sampling loop that never breaks
RECURSIVE SampleNoBreak(_, _, _, _, _, _)
SampleNoBreak(c, ds, k, i, acc, lens) ==
    IF i > Len(c) THEN [decisions |-> acc, lenAtDraw |-> lens]
    ELSE IF ds[i] < c[i].Weight
         THEN SampleNoBreak(c, ds, k, i + 1, Append(acc, c[i].Decision),
                            Append(lens, Len(acc)))
         ELSE SampleNoBreak(c, ds, k, i + 1, acc, Append(lens, Len(acc)))

\* the sampling loop over the sorted candidates c from position i: the i-th
\* r.Float64() call returns ds[i]; acc is decisions so far, lens the value of
\* len(decisions) at each draw made so far
RECURSIVE Sample(_, _, _, _, _, _)
Sample(c, ds, k, i, acc, lens) ==
    IF i > Len(c) THEN [decisions |-> acc, lenAtDraw |-> lens]
    ELSE IF ds[i] < c[i].Weight
         THEN LET acc2 == Append(acc, c[i].Decision)
              IN IF Len(acc2) > k
                 THEN [decisions |-> acc2, lenAtDraw |-> Append(lens, Len(acc))]
                 ELSE Sample(c, ds, k, i + 1, acc2, Append(lens, Len(acc)))
         ELSE Sample(c, ds, k, i + 1, acc, Append(lens, Len(acc)))

\* candidates of a completed first loop, in declaration order
Candidates(rules, ev) ==
    [i \in 1..Len(rules) |-> [Weight |-> ev[i].weight, Decision |-> rules[i].Decision]]

\* Scenario.Decisions(r)(world, maxNumDecisions) with r returning ds
Decisions(rules, ds, w, k) ==
    LET ev == EvalAll(rules, w, 1, <<>>)
    IN IF ev # <<>> /\ ev[Len(ev)].err
       THEN [decisions |-> <<>>, err |-> TRUE, evals |-> ev, lenAtDraw |-> <<>>]
       ELSE LET s == Sample(Sort(Candidates(rules, ev)), ds, k, 1, <<>>, <<>>)
            IN [decisions |-> s.decisions, err |-> FALSE, evals |-> ev,
                lenAtDraw |-> s.lenAtDraw]

(***************************************************************************)
(* Scenario content: the choices, decisions and rules of the two main      *)
(* functions, and further ones of the shapes the types admit.              *)
(***************************************************************************)
\* Choice "Accept" of "Make putsch" ("Yes" in the earlier main): it names a
\* resource, Popularity, that gameLoop's World does not hold
ChoiceAccept ==
    [Description |-> "Accept",
     Change |-> [Resources |-> [k \in {"Money", "Popularity"} |->
                                   IF k = "Money" THEN <<5, 0>> ELSE <<0, 0>>],
                 Powers |-> [k \in {"Legislation"} |-> <<0, 1000>>]]]

\* Choice "Reject" of "Make putsch"
ChoiceReject ==
    [Description |-> "Reject",
     Change |-> [Resources |-> EmptyMap, Powers |-> [k \in {"Military"} |-> <<1, 0>>]]]

\* the only Choice of "Quit": Change{} with both maps nil
ChoiceQuit ==
    [Description |-> "Quit", Change |-> [Resources |-> EmptyMap, Powers |-> EmptyMap]]

\* Choice A of the acceptance scenario: Money mult 0.5 add 0, Legislation mult 0 add 100
ChoiceA ==
    [Description |-> "A",
     Change |-> [Resources |-> [k \in {"Money"} |-> <<5, 0>>],
                 Powers |-> [k \in {"Legislation"} |-> <<0, 1000>>]]]

\* a Choice whose power Change holds a one-element Delta beside a well-formed one
ChoiceShort ==
    [Description |-> "Short",
     Change |-> [Resources |-> [k \in {"Money"} |-> <<5, 0>>],
                 Powers |-> [k \in {"Military", "Legislation"} |->
                                IF k = "Military" THEN <<5>> ELSE <<0, 1000>>]]]

\* a Choice with a three-element Delta: Money mult 0 add 50, and a third component
ChoiceLong ==
    [Description |-> "Long",
     Change |-> [Resources |-> [k \in {"Money"} |-> <<0, 500, 70>>], Powers |-> EmptyMap]]

\* a Choice whose only delta has multiplier 0: Legislation mult 0 add 100
ChoiceDecree ==
    [Description |-> "Decree",
     Change |-> [Resources |-> EmptyMap, Powers |-> [k \in {"Legislation"} |-> <<0, 1000>>]]]

ChoicePool ==
    {ChoiceAccept, ChoiceReject, ChoiceQuit, ChoiceA, ChoiceShort, ChoiceLong, ChoiceDecree}

MakeRule(guard, weight, description, choices) ==
    [Guard |-> guard, Weight |-> weight,
     Decision |-> [Description |-> description, Choices |-> choices]]

\* rule1 of main: weight 1.0
RulePutsch == MakeRule(GuardPutsch, 10, "Make putsch", <<ChoiceAccept, ChoiceReject>>)
\* the rule of the acceptance scenario: the same guard and weight, Choice A
RuleAcceptance == MakeRule(GuardPutsch, 10, "Make putsch", <<ChoiceA>>)
\* rule2 of main: weight 1.0, always applicable
RuleQuit == MakeRule(GuardTrue, 10, "Quit", <<ChoiceQuit>>)
\* an always-applicable rule of weight 0.5 whose choices hold malformed deltas
RuleTaxes == MakeRule(GuardTrue, 5, "Raise taxes", <<ChoiceShort, ChoiceLong>>)
\* a rule of weight 1.0 whose guard is false on every World
RuleWar == MakeRule(GuardFalse, 10, "Declare war", <<ChoiceReject>>)
\* a rule whose guard fails at run time
RuleBroken == MakeRule(GuardBroken, 10, "Broken", <<ChoiceQuit>>)

RulePool == {RulePutsch, RuleAcceptance, RuleQuit, RuleTaxes, RuleWar, RuleBroken}

\* scenarios of at most n distinct rules
Scenarios(n) ==
    UNION {{s \in [1..m -> RulePool] : \A i, j \in 1..m : i # j => s[i] # s[j]} : m \in 0..n}

\* values a Rand source may return: 0.0 and 0.5
DrawVals == {0, 5}

\* the two map objects gameLoop allocates, and the World struct that names them
LiveWorld == [Resources |-> "resources", Powers |-> "powers"]

HeapOf(money, military, legislation) ==
    [r \in {"resources", "powers"} |->
        IF r = "resources" THEN [k \in {"Money"} |-> money]
        ELSE [k \in {"Military", "Legislation"} |->
                 IF k = "Military" THEN military ELSE legislation]]

\* the World both main functions start from
InitialHeap == HeapOf(4000, 90, 10)

(***************************************************************************)
(* The engine and Apply called on inputs drawn from bounded sets, in the   *)
(* order of the earlier main: Decisions, then Apply of the first Choice of *)
(* the first decision.                                                     *)
(***************************************************************************)
loopVars == <<worldChOpen, decisionChOpen, choiceChOpen, uiWorld, uiWorldSeen, wBusy,
              uiDecisions, dBusy, uiChoices, uiThread, uiSending, turn>>

NoChoice == [Description |-> "", Change |-> [Resources |-> EmptyMap, Powers |-> EmptyMap]]
NoOrder == [Resources |-> <<>>, Powers |-> <<>>]
NoWorld == [Resources |-> EmptyMap, Powers |-> EmptyMap]

\* Worlds the engine is called on
EngineHeaps == {HeapOf(4000, 90, 10), HeapOf(1000, 90, 10), HeapOf(4000, 89, 10)}

\* Worlds Apply is called on; one of them holds Popularity
ApplyHeaps ==
    {HeapOf(m, p, 10) : m \in {4000, 5, -5}, p \in {90, 5}}
    \cup {[HeapOf(4000, 90, 10) EXCEPT !["resources"] = MapSet(@, "Popularity", 7)]}

InitRest ==
    /\ world = LiveWorld
    /\ evals = <<>>
    /\ decisions = <<>>
    /\ decErr = FALSE
    /\ lenAtDraw = <<>>
    /\ choice = NoChoice
    /\ order = NoOrder
    /\ pre = NoWorld
    /\ outcome = "none"
    /\ worldChOpen = TRUE
    /\ decisionChOpen = TRUE
    /\ choiceChOpen = TRUE
    /\ uiWorld = LiveWorld
    /\ uiWorldSeen = NoWorld
    /\ wBusy = FALSE
    /\ uiDecisions = <<>>
    /\ dBusy = FALSE
    /\ uiChoices = <<>>
    /\ uiThread = "running"
    /\ uiSending = NoChoice
    /\ turn = [received |-> 0, applied |-> 0]

\* inputs of a Decisions call
InitDecide ==
    /\ scenario \in Scenarios(MaxRules)
    /\ cap \in 0..MaxCap
    /\ draws \in [1..Len(scenario) -> DrawVals]
    /\ heap \in EngineHeaps
    /\ pc = "start"
    /\ InitRest

\* inputs of an Apply call
InitApply ==
    /\ scenario = <<>>
    /\ cap = 0
    /\ draws = <<>>
    /\ heap \in ApplyHeaps
    /\ pc = "apply"
    /\ InitRest

InitPure == InitDecide \/ InitApply

\* decisions, err := scenario.Decisions(r)(world, cap); a returned error is fatal
MainDecisions ==
    /\ pc = "start"
    /\ LET d == Decisions(scenario, draws, Deref(heap, world), cap)
       IN /\ evals' = d.evals
          /\ decisions' = d.decisions
          /\ decErr' = d.err
          /\ lenAtDraw' = d.lenAtDraw
          /\ pc' = IF d.err THEN "fatal" ELSE "decided"
    /\ UNCHANGED <<scenario, cap, draws, heap, world, choice, order, pre,
                   outcome, loopVars>>

\* w.Apply(c) on the live World, ranging over the Change maps in order o: the
\* maps are updated in place; a panic ends the program
DoApply(c, o, next) ==
    LET w == Deref(heap, world)
        a == Apply(w, c, o)
    IN /\ choice' = c
       /\ order' = o
       /\ pre' = w
       /\ heap' = [heap EXCEPT ![world.Resources] = a.world.Resources,
                               ![world.Powers] = a.world.Powers]
       /\ outcome' = IF a.panic THEN "panic" ELSE a.err
       /\ pc' = IF a.panic THEN "panicked" ELSE next

ChangeOrders(c) ==
    {[Resources |-> r, Powers |-> p] :
        r \in Orders(DOMAIN c.Change.Resources), p \in Orders(DOMAIN c.Change.Powers)}

\* if len(decisions) > 0 { world.Apply(decisions[0].Choices[0]) }
MainApply ==
    /\ pc = "decided"
    /\ Len(decisions) > 0
    /\ \E o \in ChangeOrders(decisions[1].Choices[1]) :
          DoApply(decisions[1].Choices[1], o, "applied")
    /\ UNCHANGED <<scenario, cap, draws, world, evals, decisions, decErr, lenAtDraw,
                   loopVars>>

\* Apply called with any Choice of the pool
ApplyCall ==
    /\ pc = "apply"
    /\ \E c \in ChoicePool : \E o \in ChangeOrders(c) : DoApply(c, o, "applied")
    /\ UNCHANGED <<scenario, cap, draws, world, evals, decisions, decErr, lenAtDraw,
                   loopVars>>

\* Apply called a second time with the Choice just applied
ApplyAgain ==
    /\ pc = "applied"
    /\ \E o \in ChangeOrders(choice) : DoApply(choice, o, "appliedTwice")
    /\ UNCHANGED <<scenario, cap, draws, world, evals, decisions, decErr, lenAtDraw,
                   loopVars>>

NextPure == MainDecisions \/ MainApply \/ ApplyCall \/ ApplyAgain

SpecPure == InitPure /\ [][NextPure]_vars

(***************************************************************************)
(* The turn orchestrator (gameLoop's goroutine) and its consumer           *)
(* (consoleUI: one goroutine ranging over worldCh, one ranging over        *)
(* decisionCh, and the UI goroutine that runs their ui.Update closures,    *)
(* the item-activation callback and the Esc binding).  All three channels  *)
(* are unbuffered: a send and its receive are one step.                    *)
(***************************************************************************)
\* the cap gameLoop hands to Decisions
LoopCap == 3

\* rules gameLoop is started with
LoopRulePool == {RulePutsch, RuleQuit, RuleTaxes, RuleBroken}

LoopScenarios == {s \in Scenarios(MaxLoopRules) : \A i \in DOMAIN s : s[i] \in LoopRulePool}

engineVars == <<evals, decisions, decErr, lenAtDraw, draws>>
applyVars == <<choice, order, pre, outcome>>
chanVars == <<worldChOpen, decisionChOpen, choiceChOpen>>

\* the process has not been ended by log.Fatalf or by a panic
Alive == pc \notin {"exited", "panicked"}

Init ==
    /\ scenario \in LoopScenarios
    /\ cap = LoopCap
    /\ draws = <<>>
    /\ heap = InitialHeap
    /\ pc = "sendWorld"
    /\ InitRest

\* a mutant of this step over a buffered worldCh: the send returns while the
\* consumer is still busy with the previous snapshot
SendWorldBuffered ==
    /\ pc = "sendWorld"
    /\ IF wBusy THEN UNCHANGED <<uiWorld, uiWorldSeen, wBusy>>
       ELSE /\ uiWorld' = world
            /\ uiWorldSeen' = Deref(heap, world)
            /\ wBusy' = TRUE
    /\ pc' = "decide"
    /\ UNCHANGED <<scenario, cap, heap, world, engineVars, applyVars, chanVars,
                   uiDecisions, dBusy, uiChoices, uiThread, uiSending>>
    /\ turn' = [received |-> 0, applied |-> 0]

\* worldCh <- world, received by `for world := range worldCh`: the struct is
\* copied, its two map references with it
SendWorld ==
    /\ pc = "sendWorld"
    /\ ~wBusy
    /\ uiWorld' = world
    /\ uiWorldSeen' = Deref(heap, world)
    /\ wBusy' = TRUE
    /\ pc' = "decide"
    /\ UNCHANGED <<scenario, cap, heap, world, engineVars, applyVars, chanVars,
                   uiDecisions, dBusy, uiChoices, uiThread, uiSending>>
    /\ turn' = [received |-> 0, applied |-> 0]

\* a mutant of this step that answers an empty list with `continue`
DecideContinue ==
    /\ pc = "decide"
    /\ \E ds \in [1..Len(scenario) -> DrawVals] :
          LET d == Decisions(scenario, ds, Deref(heap, world), cap)
          IN /\ decisions' = d.decisions
             /\ decErr' = d.err
             /\ pc' = IF d.err THEN "exited"
                      ELSE IF Len(d.decisions) = 0 THEN "sendWorld"
                      ELSE "sendDecisions"
    /\ UNCHANGED <<scenario, cap, heap, world, draws, evals, lenAtDraw, applyVars,
                   chanVars, uiWorld, uiWorldSeen, wBusy, uiDecisions, dBusy,
                   uiChoices, uiThread, uiSending>>
    /\ UNCHANGED turn

\* decisions, err := scenario.Decisions(r)(world, 3), r returning any values:
\* an error ends the process (log.Fatalf), an empty list returns, which runs
\* the deferred closes; the call's locals are gone when it returns
Decide ==
    /\ pc = "decide"
    /\ \E ds \in [1..Len(scenario) -> DrawVals] :
          LET d == Decisions(scenario, ds, Deref(heap, world), cap)
          IN /\ decisions' = d.decisions
             /\ decErr' = d.err
             /\ pc' = IF d.err THEN "exited"
                      ELSE IF Len(d.decisions) = 0 THEN "returned"
                      ELSE "sendDecisions"
             /\ worldChOpen' = (d.err \/ Len(d.decisions) # 0)
             /\ decisionChOpen' = (d.err \/ Len(d.decisions) # 0)
    /\ UNCHANGED <<scenario, cap, heap, world, draws, evals, lenAtDraw, applyVars,
                   choiceChOpen, uiWorld, uiWorldSeen, wBusy, uiDecisions, dBusy,
                   uiChoices, uiThread, uiSending>>
    /\ UNCHANGED turn

\* decisionCh <- decisions, received by `for decisions := range decisionCh`
SendDecisions ==
    /\ pc = "sendDecisions"
    /\ ~dBusy
    /\ uiDecisions' = decisions
    /\ dBusy' = TRUE
    /\ pc' = "recvChoice"
    /\ UNCHANGED <<scenario, cap, heap, world, engineVars, applyVars, chanVars, uiWorld,
                   uiWorldSeen, wBusy, uiChoices, uiThread, uiSending>>
    /\ UNCHANGED turn

\* choice, ok := <-choiceCh with ok true: the UI goroutine's pending send completes
RecvChoice ==
    /\ pc = "recvChoice"
    /\ uiThread = "sending"
    /\ choice' = uiSending
    /\ uiThread' = "running"
    /\ pc' = "apply"
    /\ UNCHANGED <<scenario, cap, heap, world, engineVars, order, pre, outcome, chanVars,
                   uiWorld, uiWorldSeen, wBusy, uiDecisions, dBusy, uiChoices, uiSending>>
    /\ turn' = [turn EXCEPT !.received = IF @ < 2 THEN @ + 1 ELSE @]

\* a mutant of this step that does not test ok and goes on with the zero Choice
RecvClosedUnchecked ==
    /\ pc = "recvChoice"
    /\ ~choiceChOpen
    /\ choice' = NoChoice
    /\ pc' = "apply"
    /\ UNCHANGED <<scenario, cap, heap, world, engineVars, order, pre, outcome, chanVars,
                   uiWorld, uiWorldSeen, wBusy, uiDecisions, dBusy, uiChoices, uiThread,
                   uiSending>>
    /\ turn' = [turn EXCEPT !.received = IF @ < 2 THEN @ + 1 ELSE @]

\* a mutant of this step that returns without the deferred closes
RecvClosedLeavingOpen ==
    /\ pc = "recvChoice"
    /\ ~choiceChOpen
    /\ pc' = "returned"
    /\ UNCHANGED <<scenario, cap, heap, world, engineVars, applyVars, chanVars, uiWorld,
                   uiWorldSeen, wBusy, uiDecisions, dBusy, uiChoices, uiThread, uiSending>>
    /\ UNCHANGED turn

\* choice, ok := <-choiceCh with ok false: return, which runs the deferred closes
RecvClosed ==
    /\ pc = "recvChoice"
    /\ ~choiceChOpen
    /\ pc' = "returned"
    /\ worldChOpen' = FALSE
    /\ decisionChOpen' = FALSE
    /\ UNCHANGED <<scenario, cap, heap, world, engineVars, applyVars, choiceChOpen, uiWorld,
                   uiWorldSeen, wBusy, uiDecisions, dBusy, uiChoices, uiThread, uiSending>>
    /\ UNCHANGED turn

\* a mutant of this step that goes on to the next Decisions call without
\* publishing the World first
ApplyChoiceUnpublished ==
    /\ pc = "apply"
    /\ \E o \in ChangeOrders(choice) : DoApply(choice, o, "decide")
    /\ worldChOpen' = (pc' # "panicked")
    /\ decisionChOpen' = (pc' # "panicked")
    /\ UNCHANGED <<scenario, cap, world, engineVars, choiceChOpen, uiWorld, uiWorldSeen,
                   wBusy, uiDecisions, dBusy, uiChoices, uiThread, uiSending>>
    /\ turn' = [turn EXCEPT !.applied = IF @ < 2 THEN @ + 1 ELSE @]

\* err = world.Apply(choice): Apply returns nil or panics; the panic runs the
\* deferred closes and ends the process
ApplyChoice ==
    /\ pc = "apply"
    /\ \E o \in ChangeOrders(choice) : DoApply(choice, o, "sendWorld")
    /\ worldChOpen' = (pc' # "panicked")
    /\ decisionChOpen' = (pc' # "panicked")
    /\ UNCHANGED <<scenario, cap, world, engineVars, choiceChOpen, uiWorld, uiWorldSeen,
                   wBusy, uiDecisions, dBusy, uiChoices, uiThread, uiSending>>
    /\ turn' = [turn EXCEPT !.applied = IF @ < 2 THEN @ + 1 ELSE @]

\* the UI goroutine runs the closure of the worldCh consumer: it reads the maps
\* of the World it was sent
RenderWorld ==
    /\ Alive
    /\ uiThread = "running"
    /\ wBusy
    /\ wBusy' = FALSE
    /\ UNCHANGED <<scenario, cap, heap, world, pc, engineVars, applyVars, chanVars, uiWorld,
                   uiWorldSeen, uiDecisions, dBusy, uiChoices, uiThread, uiSending>>
    /\ UNCHANGED turn

\* choices of a decision list in table order
RECURSIVE Flatten(_)
Flatten(ds) == IF ds = <<>> THEN <<>> ELSE ds[1].Choices \o Flatten(Tail(ds))

\* the UI goroutine runs the closure of the decisionCh consumer: it installs an
\* OnItemActivated callback over the choices of the list received
InstallChoices ==
    /\ Alive
    /\ uiThread = "running"
    /\ dBusy
    /\ dBusy' = FALSE
    /\ uiChoices' = Flatten(uiDecisions)
    /\ UNCHANGED <<scenario, cap, heap, world, pc, engineVars, applyVars, chanVars, uiWorld,
                   uiWorldSeen, wBusy, uiDecisions, uiThread, uiSending>>
    /\ UNCHANGED turn

\* the UI goroutine runs the installed callback on a selected row:
\* choiceCh <- choices[t.Selected()], which blocks until gameLoop receives
Activate ==
    /\ Alive
    /\ uiThread = "running"
    /\ \E i \in DOMAIN uiChoices :
          /\ uiSending' = uiChoices[i]
          /\ uiThread' = "sending"
    /\ UNCHANGED <<scenario, cap, heap, world, pc, engineVars, applyVars, chanVars, uiWorld,
                   uiWorldSeen, wBusy, uiDecisions, dBusy, uiChoices>>
    /\ UNCHANGED turn

\* the Esc binding: close(choiceCh); ui.Quit()
Esc ==
    /\ Alive
    /\ uiThread = "running"
    /\ choiceChOpen' = FALSE
    /\ uiThread' = "quit"
    /\ UNCHANGED <<scenario, cap, heap, world, pc, engineVars, applyVars, worldChOpen,
                   decisionChOpen, uiWorld, uiWorldSeen, wBusy, uiDecisions, dBusy,
                   uiChoices, uiSending>>
    /\ UNCHANGED turn

Next ==
    \/ SendWorld \/ Decide \/ SendDecisions \/ RecvChoice \/ RecvClosed \/ ApplyChoice
    \/ RenderWorld \/ InstallChoices \/ Activate \/ Esc

Spec == Init /\ [][Next]_vars

\* the Decisions call returns: a Decide step, told by gameLoop's position alone
\* (the call is total, so the step is possible wherever pc = "decide", and no
\* other step leaves that position)
DecideReturns == pc = "decide" /\ pc' \in {"exited", "returned", "sendDecisions"}

\* gameLoop's goroutine is scheduled: a statement it can execute is executed.
\* Nothing is assumed of the consumer and of the user.
SpecLive ==
    /\ Spec
    /\ WF_vars(SendWorld)
    /\ WF_pc(DecideReturns)
    /\ WF_vars(SendDecisions)
    /\ WF_vars(RecvChoice)
    /\ WF_vars(RecvClosed)
    /\ WF_vars(ApplyChoice)

(***************************************************************************)
(* Properties.                                                             *)
(***************************************************************************)
Now == Deref(heap, world)

\* the Decisions call of the harness has returned and the World is still the
\* one it was called on
Decided == pc \in {"decided", "fatal"}

\* C1: Rule.Evaluate returns 0 on every World on which the rule's guard is
\* false, whatever the rule's Weight, and exactly the rule's Weight on every
\* World on which the guard is true.
C1_EvaluateContract ==
    Decided =>
        \A i \in DOMAIN evals :
            LET p == Pass(scenario[i].Guard, Now)
            IN ~p.err =>
                  /\ ~evals[i].err
                  /\ evals[i].weight = IF p.pass THEN scenario[i].Weight ELSE 0

\* C1 witness: one call evaluated a rule of weight 1.0 whose guard is false to 0
\* and a rule of weight 0.5 whose guard is true to 0.5
C1_Witness ==
    /\ pc = "decided"
    /\ \E i, j \in DOMAIN evals :
          /\ scenario[i] = RuleWar /\ evals[i].weight = 0
          /\ scenario[j] = RuleTaxes /\ evals[j].weight = 5

AcceptanceWorld == Deref(InitialHeap, LiveWorld)

Descriptions(ds) == [i \in DOMAIN ds |-> ds[i].Description]

\* the acceptance scenario: one rule (guard Money > 1000 and Military >= 90,
\* weight 1.0, "Make putsch", Choice A), a source that always returns 0.0
AcceptanceRun == scenario = <<RuleAcceptance>> /\ draws = <<0>>

\* the values the acceptance scenario ends with, Legislation being l
AcceptanceEnd(l) ==
    /\ (AcceptanceRun /\ pc = "decided" /\ Now = AcceptanceWorld
          => Descriptions(decisions) = <<"Make putsch">>)
    /\ (pc = "applied" /\ pre = AcceptanceWorld /\ choice = ChoiceA
          => /\ Now.Resources = [k \in {"Money"} |-> 2000]
             /\ Now.Powers = [k \in {"Military", "Legislation"} |->
                                 IF k = "Military" THEN 90 ELSE l])

\* C2 as stated: in the acceptance scenario Decisions offers "Make putsch" and
\* applying Choice A yields Money = 2000, Legislation = 110, Military = 90.
C2_AcceptanceAsStated == AcceptanceEnd(110)

\* C2 amended: in the acceptance scenario Decisions offers "Make putsch" and
\* applying Choice A yields Money = 2000, Legislation = 100 (mult 0 add 100
\* replaces the old value 10 by round(0*10 + 100)), Military = 90.
C2_Acceptance == AcceptanceEnd(100)

\* C2 witness: the acceptance scenario has run to its end, Choice A applied to
\* the offered decision
C2_Witness ==
    /\ AcceptanceRun
    /\ pc = "applied"
    /\ pre = AcceptanceWorld
    /\ choice = ChoiceA
    /\ Descriptions(decisions) = <<"Make putsch">>

\* C3: for every World, Scenario, draw sequence and cap k >= 0 the list
\* Decisions returns has at most k+1 elements and at most as many as there are
\* rules, and no draw is made once the list is longer than k.
C3_CapBound ==
    /\ Len(decisions) <= cap + 1
    /\ Len(decisions) <= Len(scenario)
    /\ Len(lenAtDraw) <= Len(scenario)
    /\ \A i \in DOMAIN lenAtDraw : lenAtDraw[i] <= cap

\* C3 witness: a call returned cap+1 decisions and left candidates undrawn
C3_Witness ==
    /\ pc = "decided"
    /\ cap > 0
    /\ Len(decisions) = cap + 1
    /\ Len(lenAtDraw) < Len(scenario)

\* positions of the sorted candidates whose draw is strictly below their weight
Accepted(c, ds) == {i \in DOMAIN c : ds[i] < c[i].Weight}

\* C4: with cap 0, one always-true rule of weight 1.0 and a source returning
\* 0.0, Decisions returns exactly that decision; in general with cap 0 the
\* result is exactly the first accepted candidate in ascending-weight order
\* whenever a candidate is accepted.
C4_CapZero ==
    (pc = "decided" /\ cap = 0) =>
        LET c == Sort(Candidates(scenario, evals))
            acc == Accepted(c, draws)
        IN /\ acc # {} =>
                 decisions = <<c[CHOOSE i \in acc : \A j \in acc : i <= j].Decision>>
           /\ acc = {} => decisions = <<>>
           /\ (scenario = <<RuleQuit>> /\ draws = <<0>>) => decisions = <<RuleQuit.Decision>>

\* C4 witness: cap 0, the first candidate in ascending order is refused, two
\* later ones would be accepted, and one decision is returned
C4_Witness ==
    /\ pc = "decided"
    /\ cap = 0
    /\ Len(decisions) = 1
    /\ LET c == Sort(Candidates(scenario, evals))
       IN /\ 1 \notin Accepted(c, draws)
          /\ Cardinality(Accepted(c, draws)) >= 2

\* a Change holds a Delta that does not have exactly two components
Malformed(c) ==
    \/ \E k \in DOMAIN c.Change.Resources : Len(c.Change.Resources[k]) # 2
    \/ \E k \in DOMAIN c.Change.Powers : Len(c.Change.Powers[k]) # 2

\* C5: when a Change holds a Delta that does not have exactly two components,
\* Apply fails with a MalformedDeltaError returned to the caller and the World
\* is left exactly as it was before the call.
C5_MalformedRejected ==
    (outcome # "none" /\ Malformed(choice)) =>
        /\ outcome = "MalformedDeltaError"
        /\ Now = pre

\* C8: Apply changes only the entries named in the Choice's Change: every
\* resource and power not named keeps its value, no unnamed key appears or
\* disappears, and an empty Change leaves key sets and values unchanged.
C8_Frame ==
    outcome # "none" =>
        /\ \A k \in (DOMAIN pre.Resources \cup DOMAIN Now.Resources)
                        \ DOMAIN choice.Change.Resources :
              /\ k \in DOMAIN pre.Resources /\ k \in DOMAIN Now.Resources
              /\ Now.Resources[k] = pre.Resources[k]
        /\ \A k \in (DOMAIN pre.Powers \cup DOMAIN Now.Powers)
                        \ DOMAIN choice.Change.Powers :
              /\ k \in DOMAIN pre.Powers /\ k \in DOMAIN Now.Powers
              /\ Now.Powers[k] = pre.Powers[k]
        /\ (choice.Change.Resources = EmptyMap /\ choice.Change.Powers = EmptyMap)
              => Now = pre

\* C8 witness: an Apply that names Military alone has changed it, in a World
\* that holds Money and Legislation as well
C8_Witness ==
    /\ outcome = "nil"
    /\ choice = ChoiceReject
    /\ Now.Powers["Military"] # pre.Powers["Military"]
    /\ "Legislation" \in DOMAIN pre.Powers
    /\ "Money" \in DOMAIN pre.Resources

\* C7: every World snapshot gameLoop publishes on the world channel is an
\* independent copy: a snapshot already delivered reads as it did when it was
\* delivered, whatever the orchestrator applies afterwards.
C7_SnapshotIndependent ==
    uiWorldSeen # NoWorld => Deref(heap, uiWorld) = uiWorldSeen

\* C9: when Decisions returns an empty list the orchestrator terminates: it
\* returns with both output channels closed, never publishes an empty list,
\* does not wait for a Choice and takes no further step.
C9_StuckTerminates ==
    /\ [](pc = "sendDecisions" => decisions # <<>>)
    /\ [](dBusy => uiDecisions # <<>>)
    /\ [][(pc = "decide" /\ pc' # "decide" /\ ~decErr' /\ decisions' = <<>>)
             => (pc' = "returned" /\ ~worldChOpen' /\ ~decisionChOpen')]_vars
    /\ [][pc = "returned"
             => (pc' = "returned" /\ ~worldChOpen' /\ ~decisionChOpen'
                 /\ heap' = heap /\ uiDecisions' = uiDecisions /\ uiWorld' = uiWorld)]_vars

\* C9 witness: after a completed turn the engine offered nothing and the
\* orchestrator has returned, the choice channel still open
C9_Witness ==
    /\ pc = "returned"
    /\ choiceChOpen
    /\ decisions = <<>>
    /\ outcome = "nil"
    /\ ~worldChOpen /\ ~decisionChOpen

\* C10: closing the choice channel is observed only at the wait for a Choice:
\* once it is closed no Choice is received, the orchestrator returns from its
\* wait without applying, the World keeps the value of the last completed
\* Apply, and an Apply entered before the close completes as without it.
C10_Cancellation ==
    /\ [][~choiceChOpen => ~(pc = "recvChoice" /\ pc' = "apply")]_vars
    /\ [][(~choiceChOpen /\ pc = "recvChoice") => pc' \in {"recvChoice", "returned"}]_vars
    /\ [][(~choiceChOpen /\ pc # "apply") => (heap' = heap /\ world' = world)]_vars
    /\ [][(pc = "apply" /\ pc' # "apply")
             => /\ pc' \in {"sendWorld", "panicked"}
                /\ \E o \in ChangeOrders(choice) :
                      Deref(heap', world') = Apply(Now, choice, o).world]_vars

\* C10 witness: the channel was closed after a completed Apply and the
\* orchestrator has returned from its wait, the World as that Apply left it
C10_Witness ==
    /\ pc = "returned"
    /\ ~choiceChOpen
    /\ decisions # <<>>
    /\ outcome = "nil"
    /\ choice = ChoiceAccept
    /\ Now = Apply(pre, choice, order).world
    /\ Now # AcceptanceWorld

\* weight of the candidate the last Decisions call built for decision d
WeightOf(d) ==
    LET i == CHOOSE i \in DOMAIN scenario : scenario[i].Decision = d IN evals[i].weight

\* C14: Decisions visits the candidates in ascending order of weight and
\* returns the accepted decisions in that order: of any two decisions of the
\* result the earlier one has a weight less than or equal to the later one's.
C14_AscendingWeight ==
    pc = "decided" =>
        /\ \A a, b \in DOMAIN decisions :
              a < b => WeightOf(decisions[a]) <= WeightOf(decisions[b])
        /\ \A a \in DOMAIN decisions : \E i \in DOMAIN scenario : scenario[i].Decision = decisions[a]

\* C14 witness: a rule of weight 1.0 declared before a rule of weight 0.5, both
\* accepted, the lighter one returned first
C14_Witness ==
    /\ pc = "decided"
    /\ Len(scenario) >= 2
    /\ scenario[1] = RuleQuit
    /\ scenario[2] = RuleTaxes
    /\ Len(decisions) >= 2
    /\ decisions[1] = RuleTaxes.Decision
    /\ decisions[2] = RuleQuit.Decision

Range(f) == {f[i] : i \in DOMAIN f}

\* C15: a candidate is accepted if and only if its draw is strictly less than
\* its weight; so the decision of a rule whose guard is false on the World is
\* never in the result, whatever the draws and the cap.
C15_StrictAcceptance ==
    pc = "decided" =>
        LET c == Sort(Candidates(scenario, evals))
        IN /\ \A i \in DOMAIN lenAtDraw :
                 (c[i].Decision \in Range(decisions)) <=> (draws[i] < c[i].Weight)
           /\ \A i \in DOMAIN c :
                 i > Len(lenAtDraw) => c[i].Decision \notin Range(decisions)
           /\ \A i \in DOMAIN scenario :
                 LET p == Pass(scenario[i].Guard, Now)
                 IN (~p.err /\ ~p.pass) => scenario[i].Decision \notin Range(decisions)

\* C15 witness: a false-guard rule drew 0.0 and was refused, a rule of weight
\* 0.5 drew 0.5 and was refused, and another rule was accepted
C15_Witness ==
    /\ pc = "decided"
    /\ decisions # <<>>
    /\ LET c == Sort(Candidates(scenario, evals))
       IN \E i, j \in DOMAIN lenAtDraw :
             /\ c[i].Decision = RuleWar.Decision /\ draws[i] = 0
             /\ c[j].Decision = RuleTaxes.Decision /\ draws[j] = 5
    /\ RuleWar.Decision \notin Range(decisions)
    /\ RuleTaxes.Decision \notin Range(decisions)

Abs(x) == IF x >= 0 THEN x ELSE -x

\* n is the integer nearest to t tenths, the one farther from zero on a tie
NearestAwayFromZero(n, t) ==
    \/ Abs(10 * n - t) < 5
    \/ Abs(10 * n - t) = 5 /\ Abs(10 * n) > Abs(t)

\* every entry the Change map names holds the rounded affine image of its old value
RoundedImage(before, after, change) ==
    \A k \in DOMAIN change :
        /\ k \in DOMAIN after
        /\ NearestAwayFromZero(after[k], change[k][1] * MapGet(before, k) + change[k][2])

\* C17: for each (name, delta) of the resource Change and, independently, of
\* the power Change, Apply replaces the stored value old by
\* round(multiplier*old + additive), nearest integer, ties away from zero:
\* multiplier 0.5 takes 5 to 3 and -5 to -3.
C17_RoundedAffine ==
    outcome = "nil" =>
        /\ RoundedImage(pre.Resources, Now.Resources, choice.Change.Resources)
        /\ RoundedImage(pre.Powers, Now.Powers, choice.Change.Powers)
        /\ (choice = ChoiceA /\ pre.Resources["Money"] = 5) => Now.Resources["Money"] = 3
        /\ (choice = ChoiceA /\ pre.Resources["Money"] = -5) => Now.Resources["Money"] = -3

\* C17 witness: multiplier 0.5 applied to Money = -5 and multiplier 0.1 to
\* Military = 5, both ties
C17_Witness ==
    /\ outcome = "nil"
    /\ choice = ChoiceAccept
    /\ pre.Resources["Money"] = -5
    /\ Now.Resources["Money"] = -3
    /\ Now.Powers["Legislation"] = 100

\* a Change names an entry whose delta is not the identity (multiplier 1, additive 0)
NonIdentity(c) ==
    \/ \E k \in DOMAIN c.Change.Resources :
          c.Change.Resources[k][1] # 10 \/ c.Change.Resources[k][2] # 0
    \/ \E k \in DOMAIN c.Change.Powers :
          c.Change.Powers[k][1] # 10 \/ c.Change.Powers[k][2] # 0

\* every entry the Change map names held, after the first application, a value
\* its delta maps to itself
AtFixedPoint(m, change) ==
    \A k \in DOMAIN change :
        /\ k \in DOMAIN m
        /\ NearestAwayFromZero(m[k], change[k][1] * m[k] + change[k][2])

\* C18 as stated: for a Change that names an entry with a delta whose
\* multiplier is not 1 or whose additive is not 0, applying the Change twice
\* does not leave the World in the state applying it once does.
C18_NeverIdempotent ==
    (pc = "appliedTwice" /\ ~Malformed(choice) /\ NonIdentity(choice)) => Now # pre

\* C18 amended: applying a Change twice leaves the World in the state applying
\* it once does exactly when every value the first application wrote is a
\* fixed point of its delta (as with multiplier 0); otherwise, as with
\* multiplier 0.5 on Money = 4000, the second application changes the World.
C18_IdempotentAtFixedPoints ==
    (pc = "appliedTwice" /\ ~Malformed(choice)) =>
        ((Now = pre) <=> (/\ AtFixedPoint(pre.Resources, choice.Change.Resources)
                          /\ AtFixedPoint(pre.Powers, choice.Change.Powers)))

\* C18 witness: Choice A applied twice from Money = 4000: 2000 after the first
\* application, 1000 after the second
C18_Witness ==
    /\ pc = "appliedTwice"
    /\ choice = ChoiceA
    /\ pre.Resources["Money"] = 2000
    /\ Now.Resources["Money"] = 1000
    /\ Now.Powers = pre.Powers

\* some guard of the scenario fails to evaluate on World w
SomeGuardFails(w) == \E i \in DOMAIN scenario : Pass(scenario[i].Guard, w).err

\* C11: if the guard of any rule fails with an evaluation error on the World,
\* Decisions returns the error and no decisions, also when rules declared
\* earlier evaluated successfully, and gameLoop ends there: no decision list
\* is published, no Choice is received or applied, nothing happens afterwards.
C11_EvaluationErrorFatal ==
    [][/\ (pc = "decide" /\ pc' # "decide") =>
             /\ decErr' = SomeGuardFails(Now)
             /\ SomeGuardFails(Now) =>
                   /\ decisions' = <<>>
                   /\ pc' = "exited"
                   /\ UNCHANGED <<uiDecisions, dBusy, uiChoices, choice, heap, outcome>>
       /\ pc # "exited"]_vars

\* C11 witness: the first rule evaluated, the second rule's guard failed, and
\* gameLoop has ended with the error and no decisions
C11_Witness ==
    /\ pc = "exited"
    /\ decErr
    /\ decisions = <<>>
    /\ scenario = <<RuleQuit, RuleBroken>>
    /\ uiDecisions = <<>>
    /\ outcome = "none"

\* C13: worldCh and decisionCh are blocking handoffs: gameLoop leaves its send
\* of a snapshot only by handing it to a consumer that is free to receive, and
\* computes decisions only after that; it leaves its send of a decision list
\* only by handing it to a free consumer, and waits for a Choice only after
\* that; a consumer takes a new value only in such a handoff, so no second
\* snapshot or list is ever published behind one not yet accepted.
C13_BlockingHandoffs ==
    [][/\ (pc = "sendWorld" /\ pc' # "sendWorld") =>
             /\ ~wBusy /\ wBusy'
             /\ uiWorld' = world
             /\ uiWorldSeen' = Now
             /\ pc' = "decide"
             /\ UNCHANGED <<decisions, decErr>>
       /\ (pc = "sendDecisions" /\ pc' # "sendDecisions") =>
             /\ ~dBusy /\ dBusy'
             /\ uiDecisions' = decisions
             /\ pc' = "recvChoice"
       /\ (pc' = "decide" /\ pc # "decide") => pc = "sendWorld"
       /\ (pc' = "recvChoice" /\ pc # "recvChoice") => pc = "sendDecisions"
       /\ (wBusy' /\ ~wBusy) => pc = "sendWorld"
       /\ (dBusy' /\ ~dBusy) => pc = "sendDecisions"
       /\ uiWorldSeen' # uiWorldSeen => pc = "sendWorld"
       /\ uiDecisions' # uiDecisions => pc = "sendDecisions"]_vars

\* C13 witness: in a second turn gameLoop waits for a Choice, the consumers
\* having accepted the second snapshot and the second list while the first
\* snapshot was rendered
C13_Witness ==
    /\ pc = "recvChoice"
    /\ outcome = "nil"
    /\ wBusy
    /\ dBusy
    /\ uiWorldSeen = Now
    /\ uiDecisions = decisions
    /\ uiChoices # <<>>

InitialWorld == Deref(InitialHeap, LiveWorld)

\* C16: after any sequence of turns the key sets of the World's resources and
\* powers equal those of the initial World.
C16_KeySetsFixed ==
    /\ DOMAIN Now.Resources = DOMAIN InitialWorld.Resources
    /\ DOMAIN Now.Powers = DOMAIN InitialWorld.Powers

\* C19: every Choice gameLoop receives and is about to apply is a Choice of a
\* decision of the list it published last.
C19_ChoiceOfCurrentList ==
    pc = "apply" => choice \in Range(Flatten(decisions))

\* the steps of gameLoop's goroutine in the order of its loop body, with the
\* ways out of the loop
TurnSteps ==
    {<<"sendWorld", "decide">>, <<"decide", "sendDecisions">>, <<"decide", "exited">>,
     <<"decide", "returned">>, <<"sendDecisions", "recvChoice">>,
     <<"recvChoice", "apply">>, <<"recvChoice", "returned">>, <<"apply", "sendWorld">>,
     <<"apply", "panicked">>}

\* C12: within a turn gameLoop publishes the snapshot, computes decisions,
\* publishes the list, receives a Choice and applies it, in this order;
\* between two consecutive snapshot publications exactly one Choice is
\* received and Apply runs exactly once; and the snapshot published at the
\* start of a turn holds the result of the previous turn's Apply.
C12_TurnOrder ==
    [][/\ pc' # pc => <<pc, pc'>> \in TurnSteps
       /\ (pc = "sendWorld" /\ pc' = "decide") =>
             \/ /\ outcome = "none"
                /\ turn = [received |-> 0, applied |-> 0]
                /\ uiWorldSeen' = InitialWorld
             \/ /\ outcome = "nil"
                /\ turn = [received |-> 1, applied |-> 1]
                /\ uiWorldSeen' = Apply(pre, choice, order).world
       /\ (pc = "recvChoice" /\ pc' = "apply") =>
             /\ turn = [received |-> 0, applied |-> 0]
             /\ turn' = [received |-> 1, applied |-> 0]
       /\ (pc = "apply" /\ pc' # "apply") =>
             /\ turn = [received |-> 1, applied |-> 0]
             /\ turn' = [received |-> 1, applied |-> 1]
       /\ turn' # turn => pc' # pc]_vars

\* C12 witness: the snapshot of a second turn has been published after one
\* Choice was received and applied, and it differs from the first snapshot
C12_Witness ==
    /\ pc = "decide"
    /\ outcome = "nil"
    /\ turn = [received |-> 0, applied |-> 0]
    /\ uiWorldSeen = Now
    /\ uiWorldSeen # InitialWorld
    /\ pre = InitialWorld

\* gameLoop's goroutine has ended
Terminated == pc \in {"returned", "panicked", "exited"}

\* gameLoop is blocked for ever in a send the consumer does not receive
SendNeverReceived ==
    \/ [](pc = "sendWorld" /\ wBusy)
    \/ [](pc = "sendDecisions" /\ dBusy)

\* a consumer stays inside ui.Update for ever and receives no more
ConsumerStopsReceiving == []wBusy \/ []dBusy

\* both `range` loops of the consumer have ended: the channels are closed (or
\* the process is gone) and no consumer is inside ui.Update
ConsumerLoopsEnded ==
    /\ Terminated
    /\ pc # "exited" => ~worldChOpen /\ ~decisionChOpen
    /\ ~wBusy
    /\ ~dBusy

\* C20: whenever gameLoop's goroutine leaves its loop by a return (no decision,
\* choiceCh closed) or by a failing Apply, decisionCh and worldCh are closed;
\* once it has ended nothing more is published; and after choiceCh is closed
\* the goroutine eventually ends, unless it stays blocked in a send the
\* consumer never receives, and both receive loops of the consumer eventually
\* end, unless a consumer stops receiving.
C20_ClosesAndTerminates ==
    /\ [](pc \in {"returned", "panicked"} => ~worldChOpen /\ ~decisionChOpen)
    /\ [][Terminated => UNCHANGED <<pc, uiWorld, uiWorldSeen, uiDecisions, heap>>
                        /\ (wBusy' => wBusy) /\ (dBusy' => dBusy)]_vars
    /\ ~choiceChOpen ~> (Terminated \/ SendNeverReceived)
    /\ ~choiceChOpen ~> (ConsumerLoopsEnded \/ ConsumerStopsReceiving)

\* C20 witness: in a second turn the consumer, free on both channels, closed
\* choiceCh; gameLoop returned and closed both channels
C20_Witness ==
    /\ pc = "returned"
    /\ ~choiceChOpen
    /\ ~worldChOpen
    /\ ~decisionChOpen
    /\ ~wBusy
    /\ ~dBusy
    /\ outcome = "nil"
    /\ decisions # <<>>

====
